---- MODULE Spec2Model ----
(***************************************************************************)
(* Model of the two tools of globasa_minecraft:                            *)
(*   tools/merge.py     the merger (reference + localized -> localized)    *)
(*   tools/progress.py  the progress analyzer and its overlap heuristic    *)
(*                                                                         *)
(* A Python str is a sequence of one-character strings.  The characters    *)
(* outside ASCII that the programs mention are written by code point:      *)
(*   "U+0E22" "U+0E07"  the two characters of the literal in MC_COLOR_RE   *)
(*   "U+00A7"           the section sign of Minecraft formatting codes     *)
(* A JSON value is a record [t, s]: t = "str" with the characters s,       *)
(* t = "num" with the digits s, or t = "none" (Python None: key absent).   *)
(* A dict is a sequence of records [k, v] with distinct keys, in insertion *)
(* order.  A float ratio p/q is the record [n |-> p, d |-> q].             *)
(***************************************************************************)
EXTENDS Integers, Sequences, FiniteSets, TLC

VARIABLES
    \* the file system
    ref_file, glb_file, en_file,
    \* tools/progress.py: configuration and the locals of main()
    english_path, a_pc, ref, glb, en, total, filled, missing_or_empty,
    identical_english, identical_but_allowed, fully_translated,
    partially_translated, mostly_english, partial_examples, counted,
    \* tools/merge.py: the locals of main()
    m_pc, m_en, m_glb, merged, kept, missing, obsolete, runs, written,
    \* the pure functions of tools/progress.py, called on their own
    english, candidate, f_pc, toks, ratio

fileVars == <<ref_file, glb_file, en_file>>
analyzerVars == <<english_path, a_pc, ref, glb, en, total, filled, missing_or_empty,
                  identical_english, identical_but_allowed, fully_translated,
                  partially_translated, mostly_english, partial_examples, counted>>
mergerVars == <<m_pc, m_en, m_glb, merged, kept, missing, obsolete, runs, written>>
funVars == <<english, candidate, f_pc, toks, ratio>>
vars == <<fileVars, analyzerVars, mergerVars, funVars>>

-----------------------------------------------------------------------------
(* Bounds of the model *)

\* number of distinct key names a file may hold
MaxKeys == 2
\* length of the strings the tokenizer is run on
MaxLen == 4
\* number of words in the strings overlap_ratio is run on
MaxWords == 2
\* number of merger runs in a row
MaxRuns == 2

-----------------------------------------------------------------------------
(* Python str *)

UPPER == <<"A","B","C","D","E","F","G","H","I","J","K","L","M",
           "N","O","P","Q","R","S","T","U","V","W","X","Y","Z">>
LOWER == <<"a","b","c","d","e","f","g","h","i","j","k","l","m",
           "n","o","p","q","r","s","t","u","v","w","x","y","z">>
DIGITS == {"0","1","2","3","4","5","6","7","8","9"}

Range(f) == {f[i] : i \in DOMAIN f}

UpperChars == Range(UPPER)
LowerChars == Range(LOWER)
LowerOf == [c \in UpperChars |-> LOWER[CHOOSE i \in DOMAIN UPPER : UPPER[i] = c]]

\* str.lower() on one character
LowerChar(c) == IF c \in UpperChars THEN LowerOf[c] ELSE c

\* str.lower()
Lower(s) == [i \in DOMAIN s |-> LowerChar(s[i])]

\* the characters str.strip() removes
WHITESPACE == {" ", "\n", "\t", "\r"}

\* v.strip() != ""
StripNonEmpty(s) == \E i \in DOMAIN s : s[i] \notin WHITESPACE

NoneValue == [t |-> "none", s |-> <<>>]
Str(s) == [t |-> "str", s |-> s]
Num(s) == [t |-> "num", s |-> s]

\* is_filled without the strip()
is_filled_nonblank(v) == v.t = "str" /\ v.s # <<>>
\* isinstance(v, str) and v.strip() != ""
is_filled(v) == v.t = "str" /\ StripNonEmpty(v.s)

-----------------------------------------------------------------------------
(* tools/progress.py: normalization, tokens, overlap *)

SAME_AS_ENGLISH_WORDS == { <<"b","l","u","e">>, <<"o","r","a","n","g","e">> }

MOSTLY_ENGLISH_THRESHOLD == [n |-> 85, d |-> 100]
FULLY_TRANSLATED_THRESHOLD == [n |-> 5, d |-> 100]

\* the conversion letters of PLACEHOLDER_RE
CONVERSIONS == {"s","d","f","o","x","X","e","E","g","G","c","b","h","H","a","A","t","T"}

At(s, i) == IF i \in DOMAIN s THEN s[i] ELSE "EOS"

RECURSIVE DigitRun(_, _)
\* the number of characters \d+ takes from position i
DigitRun(s, i) == IF At(s, i) \in DIGITS THEN 1 + DigitRun(s, i + 1) ELSE 0

\* the length of the match of PLACEHOLDER_RE at position i, 0 when there is none:
\*   %(?:\d+\$)?[sdfoxXeEgGcbhHaAtT]   or   %%
PLACEHOLDER_RE(s, i) ==
    LET n == DigitRun(s, i + 1) IN
    IF At(s, i) # "%" THEN 0
    ELSE IF n > 0 /\ At(s, i + 1 + n) = "$" /\ At(s, i + 2 + n) \in CONVERSIONS
         THEN n + 3
    ELSE IF At(s, i + 1) \in CONVERSIONS THEN 2
    ELSE IF At(s, i + 1) = "%" THEN 2
    ELSE 0

\* the length of the match of MC_COLOR_RE at position i, 0 when there is none:
\* the literal characters U+0E22 U+0E07, then any character but a newline
MC_COLOR_RE(s, i) ==
    IF At(s, i) = "U+0E22" /\ At(s, i + 1) = "U+0E07"
       /\ (i + 2) \in DOMAIN s /\ s[i + 2] # "\n"
    THEN 3 ELSE 0

RECURSIVE SubPlaceholder(_, _)
\* PLACEHOLDER_RE.sub(" ", s), from position i on
SubPlaceholder(s, i) ==
    IF i > Len(s) THEN <<>>
    ELSE IF PLACEHOLDER_RE(s, i) > 0
         THEN <<" ">> \o SubPlaceholder(s, i + PLACEHOLDER_RE(s, i))
         ELSE <<s[i]>> \o SubPlaceholder(s, i + 1)

RECURSIVE SubColor(_, _)
\* MC_COLOR_RE.sub(" ", s), from position i on
SubColor(s, i) ==
    IF i > Len(s) THEN <<>>
    ELSE IF MC_COLOR_RE(s, i) > 0
         THEN <<" ">> \o SubColor(s, i + MC_COLOR_RE(s, i))
         ELSE <<s[i]>> \o SubColor(s, i + 1)

normalize_for_tokens(s) == Lower(SubColor(SubPlaceholder(s, 1), 1))

\* [a-z0-9]
TokenChars == LowerChars \cup DIGITS
IsTokenChar(c) == c \in TokenChars

RECURSIVE FindAll(_, _, _)
\* re.findall(r"[a-z0-9]+", s) as a set: the maximal runs from position i on,
\* cur being the run that ends just before i
FindAll(s, i, cur) ==
    IF i > Len(s) THEN (IF cur = <<>> THEN {} ELSE {cur})
    ELSE IF IsTokenChar(s[i]) THEN FindAll(s, i + 1, Append(cur, s[i]))
    ELSE (IF cur = <<>> THEN {} ELSE {cur}) \cup FindAll(s, i + 1, <<>>)

tokens(s) == FindAll(normalize_for_tokens(s), 1, <<>>)

\* filtered_english_tokens without the allow-list
filtered_english_tokens_unfiltered(s) == tokens(s)
\* {t for t in tokens(english) if t not in SAME_AS_ENGLISH_WORDS}
filtered_english_tokens(s) == {t \in tokens(s) : t \notin SAME_AS_ENGLISH_WORDS}

\* overlap_ratio dividing by the size of the union
overlap_ratio_jaccard(e_str, c_str) ==
    LET e == filtered_english_tokens(e_str)
        c == tokens(c_str)
    IN  IF e = {} THEN [n |-> 0, d |-> 1]
        ELSE [n |-> Cardinality(e \cap c), d |-> Cardinality(e \cup c)]
\* overlap_ratio(english, candidate): 0.0 is 0/1
overlap_ratio(e_str, c_str) ==
    LET e == filtered_english_tokens(e_str)
        c == tokens(c_str)
    IN  IF e = {} THEN [n |-> 0, d |-> 1]
        ELSE [n |-> Cardinality(e \cap c), d |-> Cardinality(e)]

\* comparisons of a float ratio with a threshold
GE(r, th) == r.n * th.d >= th.n * r.d
LE(r, th) == r.n * th.d <= th.n * r.d

-----------------------------------------------------------------------------
(* Python dict and list *)

Keys(d) == {d[i].k : i \in DOMAIN d}
KeySeq(d) == [i \in DOMAIN d |-> d[i].k]

\* d.get(k, None)
Get(d, k) ==
    IF k \in Keys(d) THEN d[CHOOSE i \in DOMAIN d : d[i].k = k].v ELSE NoneValue

\* d[k] = v: a new key goes last, a key already there keeps its place
Put(d, k, v) ==
    IF k \in Keys(d)
    THEN [i \in DOMAIN d |-> IF d[i].k = k THEN [k |-> k, v |-> v] ELSE d[i]]
    ELSE Append(d, [k |-> k, v |-> v])

\* the key names of the model, in the order sorted() gives them
KeyNames == << <<"a">>, <<"b">>, <<"c">>, <<"d">> >>
KeyRank(k) == CHOOSE i \in DOMAIN KeyNames : KeyNames[i] = k

RECURSIVE Sorted(_)
\* sorted(S) for a set S of keys
Sorted(S) ==
    IF S = {} THEN <<>>
    ELSE LET m == CHOOSE x \in S : \A y \in S : KeyRank(x) <= KeyRank(y)
         IN  <<m>> \o Sorted(S \ {m})

-----------------------------------------------------------------------------
(* json.dumps(d, ensure_ascii=False, indent=2) and json.loads *)

QUOTE == "\""
BACKSLASH == "\\"

\* the escape json.dumps writes for one character of a string
EscapeChar(c) ==
    CASE c = QUOTE     -> <<BACKSLASH, QUOTE>>
      [] c = BACKSLASH -> <<BACKSLASH, BACKSLASH>>
      [] c = "\n"      -> <<BACKSLASH, "n">>
      [] c = "\r"      -> <<BACKSLASH, "r">>
      [] c = "\t"      -> <<BACKSLASH, "t">>
      [] OTHER         -> <<c>>

RECURSIVE Escape(_, _)
Escape(s, i) == IF i > Len(s) THEN <<>> ELSE EscapeChar(s[i]) \o Escape(s, i + 1)

DumpsStr(s) == <<QUOTE>> \o Escape(s, 1) \o <<QUOTE>>

DumpsValue(v) ==
    CASE v.t = "str"  -> DumpsStr(v.s)
      [] v.t = "num"  -> v.s
      [] v.t = "none" -> <<"n","u","l","l">>

RECURSIVE DumpsItems(_, _)
\* the items of a non-empty object from the i-th on, each on its own line,
\* indented by two spaces, separated by a comma
DumpsItems(d, i) ==
    <<"\n", " ", " ">> \o DumpsStr(d[i].k) \o <<":", " ">> \o DumpsValue(d[i].v)
    \o (IF i = Len(d) THEN <<"\n">> ELSE <<",">> \o DumpsItems(d, i + 1))

\* json.dumps(d, ensure_ascii=False, indent=2)
Dumps(d) == IF d = <<>> THEN <<"{", "}">> ELSE <<"{">> \o DumpsItems(d, 1) \o <<"}">>

RECURSIVE SkipWs(_, _)
SkipWs(t, i) == IF At(t, i) \in WHITESPACE THEN SkipWs(t, i + 1) ELSE i

\* the character an escape sequence \c stands for
UnescapeChar(c) ==
    CASE c = "n" -> "\n"
      [] c = "r" -> "\r"
      [] c = "t" -> "\t"
      [] OTHER   -> c

RECURSIVE ScanString_raw(_, _, _)
\* ScanString keeping escape sequences as they are written
ScanString_raw(t, i, acc) ==
    IF At(t, i) = QUOTE THEN [v |-> acc, next |-> i + 1]
    ELSE IF At(t, i) = BACKSLASH
         THEN ScanString_raw(t, i + 2, acc \o <<BACKSLASH, At(t, i + 1)>>)
    ELSE ScanString_raw(t, i + 1, Append(acc, At(t, i)))

RECURSIVE ScanString(_, _, _)
\* the string whose characters start at position i (after the opening quote):
\* its value and the position after the closing quote
ScanString(t, i, acc) ==
    IF At(t, i) = QUOTE THEN [v |-> acc, next |-> i + 1]
    ELSE IF At(t, i) = BACKSLASH
         THEN ScanString(t, i + 2, Append(acc, UnescapeChar(At(t, i + 1))))
    ELSE ScanString(t, i + 1, Append(acc, At(t, i)))

\* a value at position i: a string, a number or null
ScanValue(t, i) ==
    IF At(t, i) = QUOTE
    THEN LET r == ScanString(t, i + 1, <<>>) IN [v |-> Str(r.v), next |-> r.next]
    ELSE IF At(t, i) \in DIGITS
    THEN [v |-> Num(SubSeq(t, i, i + DigitRun(t, i) - 1)), next |-> i + DigitRun(t, i)]
    ELSE [v |-> NoneValue, next |-> i + 4]

RECURSIVE ScanItems(_, _, _)
\* the items of an object from position i on, added to d
ScanItems(t, i, d) ==
    LET a  == SkipWs(t, i)
        ks == ScanString(t, a + 1, <<>>)
        c  == SkipWs(t, ks.next)
        vs == ScanValue(t, SkipWs(t, c + 1))
        e  == SkipWs(t, vs.next)
        d2 == Put(d, ks.v, vs.v)
    IN  IF At(t, a) = "}" THEN d
        ELSE IF At(t, e) = "," THEN ScanItems(t, e + 1, d2)
        ELSE d2

\* json.loads(text) for the text of an object
Loads(t) == ScanItems(t, SkipWs(t, 1) + 1, <<>>)

\* a file: missing, or its text
MissingFile == [exists |-> FALSE, text |-> <<>>]
File(text) == [exists |-> TRUE, text |-> text]

\* path.read_text(), json.loads
load_json(f) == Loads(f.text)

\* json.dumps(merged, ensure_ascii=False, indent=2) + "\n"
OutputText(d) == Dumps(d) \o <<"\n">>

-----------------------------------------------------------------------------
(* tools/merge.py: main() *)

\* HasTranslation without the strip()
HasTranslation_nonblank(glb_d, k) ==
    k \in Keys(glb_d) /\ Get(glb_d, k).t = "str" /\ Get(glb_d, k).s # <<>>
\* k in glb and isinstance(glb[k], str) and glb[k].strip() != ""
HasTranslation(glb_d, k) ==
    k \in Keys(glb_d) /\ Get(glb_d, k).t = "str" /\ StripNonEmpty(Get(glb_d, k).s)

\* the strategy in force: merged[k] = ""  (blank = needs translation)
\* (the other strategy, merged[k] = en[k], is commented out in the source)
Fallback(en_d, k) == Str(<<>>)

\* the body of the loop for key k: the value merged[k] gets
MergeEntry(en_d, glb_d, k) ==
    IF HasTranslation(glb_d, k) THEN Get(glb_d, k) ELSE Fallback(en_d, k)

\* the keys in sorted order instead
EnKeys_sorted(en_d, glb_d) == Sorted(Keys(en_d))
\* the keys the loop runs over, in its order: en.keys()
EnKeys(en_d, glb_d) == KeySeq(en_d)

RECURSIVE MergeLoop(_, _, _, _, _)
\* for k in en.keys(): merged[k] = ...   (acc is merged so far)
MergeLoop(order, en_d, glb_d, i, acc) ==
    IF i > Len(order) THEN acc
    ELSE MergeLoop(order, en_d, glb_d, i + 1,
                   Put(acc, order[i], MergeEntry(en_d, glb_d, order[i])))

\* kept: the keys that took the first branch of the loop
KeptCount(en_d, glb_d) ==
    Cardinality({k \in Keys(en_d) : HasTranslation(glb_d, k)})

\* read_text() of a missing file raises FileNotFoundError: the run ends with a
\* traceback before anything is written
MergeFileNotFound ==
    /\ runs < MaxRuns
    /\ ~ref_file.exists \/ ~glb_file.exists
    /\ m_pc' = "fatal"
    /\ runs' = runs + 1
    /\ m_en' = <<>> /\ m_glb' = <<>> /\ merged' = <<>>
    /\ kept' = 0 /\ missing' = 0 /\ obsolete' = <<>>
    /\ UNCHANGED <<written, fileVars, analyzerVars, funVars>>

\* one run of main() on files that exist; OUT_PATH is GLOBASA_PATH
Merge ==
    /\ runs < MaxRuns
    /\ ref_file.exists /\ glb_file.exists
    /\ m_en' = load_json(ref_file)
    /\ m_glb' = load_json(glb_file)
    /\ merged' = MergeLoop(EnKeys(m_en', m_glb'), m_en', m_glb', 1, <<>>)
    /\ kept' = KeptCount(m_en', m_glb')
    /\ missing' = Cardinality(Keys(m_en')) - kept'
    /\ obsolete' = Sorted(Keys(m_glb') \ Keys(m_en'))
    /\ glb_file' = File(OutputText(merged'))
    /\ written' = Append(written, glb_file'.text)
    /\ m_pc' = "done"
    /\ runs' = runs + 1
    /\ UNCHANGED <<ref_file, en_file, analyzerVars, funVars>>

-----------------------------------------------------------------------------
(* tools/progress.py: main() *)

\* the file ENGLISH_PATH names: REFERENCE_PATH itself as shipped, or another file
EnglishFile == IF english_path = "reference" THEN ref_file ELSE en_file

\* ClassifyKey without the continue at the end of the identical branch
ClassifyKey_fallthrough(gv, ev) ==
    IF ~(gv.t = "str" /\ ev.t = "str") THEN <<>>
    ELSE IF ~is_filled(gv) THEN <<>>
    ELSE LET r == overlap_ratio(ev.s, gv.s)
             rest == IF GE(r, MOSTLY_ENGLISH_THRESHOLD) THEN <<"mostly_english">>
                     ELSE IF LE(r, FULLY_TRANSLATED_THRESHOLD) THEN <<"fully_translated">>
                     ELSE <<"partially_translated">>
         IN  IF gv = ev
             THEN (IF filtered_english_tokens(ev.s) # {}
                   THEN <<"identical_english">>
                   ELSE <<"identical_but_allowed", "fully_translated">>) \o rest
             ELSE rest
\* ClassifyKey without the allow-list exception of the identical branch
ClassifyKey_noallow(gv, ev) ==
    IF ~(gv.t = "str" /\ ev.t = "str") THEN <<>>
    ELSE IF ~is_filled(gv) THEN <<>>
    ELSE IF gv = ev THEN <<"identical_english">>
    ELSE LET r == overlap_ratio(ev.s, gv.s)
         IN  IF GE(r, MOSTLY_ENGLISH_THRESHOLD) THEN <<"mostly_english">>
             ELSE IF LE(r, FULLY_TRANSLATED_THRESHOLD) THEN <<"fully_translated">>
             ELSE <<"partially_translated">>
\* the body of the overlap loop for one key: the counters it increments, in order
ClassifyKey(gv, ev) ==
    IF ~(gv.t = "str" /\ ev.t = "str") THEN <<>>
    ELSE IF ~is_filled(gv) THEN <<>>
    ELSE IF gv = ev
         THEN IF filtered_english_tokens(ev.s) # {}
              THEN <<"identical_english">>
              ELSE <<"identical_but_allowed", "fully_translated">>
    ELSE LET r == overlap_ratio(ev.s, gv.s)
         IN  IF GE(r, MOSTLY_ENGLISH_THRESHOLD) THEN <<"mostly_english">>
             ELSE IF LE(r, FULLY_TRANSLATED_THRESHOLD) THEN <<"fully_translated">>
             ELSE <<"partially_translated">>

\* how often the sequence q names the counter c
Count(q, c) == Cardinality({i \in DOMAIN q : q[i] = c})

RECURSIVE Tally(_, _, _)
\* the value of counter c after the loop has run over the keys S
Tally(S, incs, c) ==
    IF S = {} THEN 0
    ELSE LET k == CHOOSE x \in S : TRUE
         IN  Count(incs[k], c) + Tally(S \ {k}, incs, c)

\* the keys the first loop counts as filled
FilledKeys(ref_d, glb_d) == {k \in Keys(ref_d) : is_filled(Get(glb_d, k))}

analyzerLocals == <<ref, glb, en, total, filled, missing_or_empty,
                    identical_english, identical_but_allowed, fully_translated,
                    partially_translated, mostly_english, partial_examples, counted>>

\* lines 96-99: a missing reference or lang file ends the run (SystemExit)
AnalyzerFileNotFound ==
    /\ a_pc = "start"
    /\ ~ref_file.exists \/ ~glb_file.exists
    /\ a_pc' = "fatal"
    /\ UNCHANGED <<english_path, analyzerLocals, fileVars, mergerVars, funVars>>

\* lines 101-102: both files exist and are loaded
AnalyzerLoad ==
    /\ a_pc = "start"
    /\ ref_file.exists /\ glb_file.exists
    /\ ref' = load_json(ref_file)
    /\ glb' = load_json(glb_file)
    /\ a_pc' = "loaded"
    /\ UNCHANGED <<english_path, en, total, filled, missing_or_empty,
                   identical_english, identical_but_allowed, fully_translated,
                   partially_translated, mostly_english, partial_examples, counted,
                   fileVars, mergerVars, funVars>>

\* lines 104-107: a reference without keys ends the run (SystemExit)
AnalyzerEmptyReference ==
    /\ a_pc = "loaded"
    /\ Cardinality(Keys(ref)) = 0
    /\ total' = 0
    /\ a_pc' = "fatal"
    /\ UNCHANGED <<english_path, ref, glb, en, filled, missing_or_empty,
                   identical_english, identical_but_allowed, fully_translated,
                   partially_translated, mostly_english, partial_examples, counted,
                   fileVars, mergerVars, funVars>>

\* lines 104-131: count the filled keys, print the first part of the report
AnalyzerBasic ==
    /\ a_pc = "loaded"
    /\ Cardinality(Keys(ref)) # 0
    /\ total' = Cardinality(Keys(ref))
    /\ filled' = Cardinality(FilledKeys(ref, glb))
    /\ missing_or_empty' = Sorted(Keys(ref) \ FilledKeys(ref, glb))
    /\ a_pc' = "basic"
    /\ UNCHANGED <<english_path, ref, glb, en, identical_english, identical_but_allowed,
                   fully_translated, partially_translated, mostly_english,
                   partial_examples, counted, fileVars, mergerVars, funVars>>

\* line 134: ENGLISH_PATH is None, the overlap statistics are skipped
AnalyzerOverlapDisabled ==
    /\ a_pc = "basic"
    /\ english_path = "None"
    /\ a_pc' = "overlap"
    /\ UNCHANGED <<english_path, analyzerLocals, fileVars, mergerVars, funVars>>

\* lines 135-136: a missing English file ends the run (SystemExit)
AnalyzerEnglishNotFound ==
    /\ a_pc = "basic"
    /\ english_path # "None"
    /\ ~EnglishFile.exists
    /\ a_pc' = "fatal"
    /\ UNCHANGED <<english_path, analyzerLocals, fileVars, mergerVars, funVars>>

\* line 137: the English file exists and is loaded
AnalyzerLoadEnglish ==
    /\ a_pc = "basic"
    /\ english_path # "None"
    /\ EnglishFile.exists
    /\ en' = load_json(EnglishFile)
    /\ a_pc' = "english"
    /\ UNCHANGED <<english_path, ref, glb, total, filled, missing_or_empty,
                   identical_english, identical_but_allowed, fully_translated,
                   partially_translated, mostly_english, partial_examples, counted,
                   fileVars, mergerVars, funVars>>

\* lines 139-199: classify every key of the reference, print the counters.
\* The loop runs over a set; no counter depends on the order of the keys.
AnalyzerOverlap ==
    /\ a_pc = "english"
    /\ LET incs == [k \in Keys(ref) |-> ClassifyKey(Get(glb, k), Get(en, k))]
       IN  /\ counted' = incs
           /\ identical_english' = Tally(Keys(ref), incs, "identical_english")
           /\ identical_but_allowed' = Tally(Keys(ref), incs, "identical_but_allowed")
           /\ fully_translated' = Tally(Keys(ref), incs, "fully_translated")
           /\ partially_translated' = Tally(Keys(ref), incs, "partially_translated")
           /\ mostly_english' = Tally(Keys(ref), incs, "mostly_english")
           /\ partial_examples' =
                 {k \in Keys(ref) : Count(incs[k], "mostly_english")
                                    + Count(incs[k], "partially_translated") > 0}
    /\ a_pc' = "overlap"
    /\ UNCHANGED <<english_path, ref, glb, en, total, filled, missing_or_empty,
                   fileVars, mergerVars, funVars>>

\* lines 201-207: print the missing keys; main() returns
AnalyzerPrintMissing ==
    /\ a_pc = "overlap"
    /\ a_pc' = "done"
    /\ UNCHANGED <<english_path, analyzerLocals, fileVars, mergerVars, funVars>>

-----------------------------------------------------------------------------
(* the pure functions of tools/progress.py, each called on its own *)

CallTokens ==
    /\ f_pc = "input"
    /\ toks' = tokens(english)
    /\ f_pc' = "tokens"
    /\ UNCHANGED <<english, candidate, ratio, fileVars, analyzerVars, mergerVars>>

CallFilteredEnglishTokens ==
    /\ f_pc = "input"
    /\ toks' = filtered_english_tokens(english)
    /\ f_pc' = "filtered"
    /\ UNCHANGED <<english, candidate, ratio, fileVars, analyzerVars, mergerVars>>

CallOverlapRatio ==
    /\ f_pc = "filtered"
    /\ ratio' = overlap_ratio(english, candidate)
    /\ f_pc' = "ratio"
    /\ UNCHANGED <<english, candidate, toks, fileVars, analyzerVars, mergerVars>>

-----------------------------------------------------------------------------
(* Initial states: the files on disk and the configuration *)

KeyPool == {KeyNames[i] : i \in 1..MaxKeys}

\* the key sequences a file may hold, in any order / in sorted order
KeyOrders ==
    UNION {{s \in [1..n -> KeyPool] : \A i, j \in 1..n : i # j => s[i] # s[j]} : n \in 0..MaxKeys}
SortedKeyOrders == {Sorted(S) : S \in SUBSET KeyPool}

\* the dicts with one of these key sequences and values in V
DictsOver(orders, V) ==
    UNION {{[i \in DOMAIN ks |-> [k |-> ks[i], v |-> vs[i]]] : vs \in [DOMAIN ks -> V]}
           : ks \in orders}

FilesOf(dicts) == {MissingFile} \cup {File(OutputText(d)) : d \in dicts}

MergeRefValues == {Str(<<"B">>), Num(<<"5">>)}
MergeGlbValues == {Str(<<>>), Str(<<" ">>), Str(<<"o", QUOTE, BACKSLASH, "\n">>), Num(<<"7">>)}

RefValues == {Str(<<"B","l","u","e">>), Str(<<"R","e","d"," ","O","x">>),
              Num(<<"5">>)}
GlbValues == {Str(<<>>), Str(<<" ">>), Str(<<"B","l","u","e">>),
              Str(<<"R","e","d"," ","O","x">>),
              Str(<<"r","e","d"," ","o","x">>),
              Str(<<"O","x">>), Num(<<"5">>)}

\* a separate English file: missing, or every key with the same text
OtherEnglishFiles ==
    {MissingFile}
    \cup {File(OutputText([i \in 1..MaxKeys |->
                 [k |-> KeyNames[i], v |-> Str(<<"R","e","d"," ","O","x">>)]]))}

\* the characters of the strings the tokenizer is run on
TokAlphabet == {"%", "1", "$", "s", "Z", "U+0E22", "U+0E07", "U+00A7", "\n"}

\* the words of the strings overlap_ratio is run on
Words == << <<"B","l","u","e">>, <<"S","h","e","e","p">>, <<"o","v","o">>,
            <<"%","s">>, <<"U+0E22","U+0E07","a">>, <<"U+00A7","a">> >>
RECURSIVE JoinWords(_, _)
JoinWords(ws, i) ==
    IF i > Len(ws) THEN <<>>
    ELSE Words[ws[i]] \o (IF i = Len(ws) THEN <<>> ELSE <<" ">> \o JoinWords(ws, i + 1))
OverlapInputs == {JoinWords(ws, 1) : ws \in UNION {[1..n -> DOMAIN Words] : n \in 0..MaxWords}}

AnalyzerOff ==
    /\ english_path = "None" /\ a_pc = "off"
    /\ ref = <<>> /\ glb = <<>> /\ en = <<>>
    /\ total = 0 /\ filled = 0 /\ missing_or_empty = <<>>
    /\ identical_english = 0 /\ identical_but_allowed = 0 /\ fully_translated = 0
    /\ partially_translated = 0 /\ mostly_english = 0
    /\ partial_examples = {} /\ counted = <<>>

MergerOff ==
    /\ m_pc = "off" /\ m_en = <<>> /\ m_glb = <<>> /\ merged = <<>>
    /\ kept = 0 /\ missing = 0 /\ obsolete = <<>> /\ runs = 0 /\ written = <<>>

FunctionsOff ==
    /\ english = <<>> /\ candidate = <<>> /\ f_pc = "off" /\ toks = {}
    /\ ratio = [n |-> 0, d |-> 1]

NoFiles == ref_file = MissingFile /\ glb_file = MissingFile /\ en_file = MissingFile

\* the merger about to run
InitMerge ==
    /\ ref_file \in FilesOf(DictsOver(KeyOrders, MergeRefValues))
    /\ glb_file \in FilesOf(DictsOver(KeyOrders, MergeGlbValues))
    /\ en_file = MissingFile
    /\ m_pc = "start" /\ m_en = <<>> /\ m_glb = <<>> /\ merged = <<>>
    /\ kept = 0 /\ missing = 0 /\ obsolete = <<>> /\ runs = 0 /\ written = <<>>
    /\ AnalyzerOff /\ FunctionsOff

\* the analyzer about to run
InitProgress ==
    /\ ref_file \in FilesOf(DictsOver(SortedKeyOrders, RefValues))
    /\ glb_file \in FilesOf(DictsOver(SortedKeyOrders, GlbValues))
    /\ english_path \in {"None", "reference", "other"}
    /\ en_file \in IF english_path = "other" THEN OtherEnglishFiles ELSE {MissingFile}
    /\ a_pc = "start"
    /\ ref = <<>> /\ glb = <<>> /\ en = <<>>
    /\ total = 0 /\ filled = 0 /\ missing_or_empty = <<>>
    /\ identical_english = 0 /\ identical_but_allowed = 0 /\ fully_translated = 0
    /\ partially_translated = 0 /\ mostly_english = 0
    /\ partial_examples = {} /\ counted = <<>>
    /\ MergerOff /\ FunctionsOff

\* tokens() about to be called on a string
InitTokens ==
    /\ \E n \in 0..MaxLen : english \in [1..n -> TokAlphabet]
    /\ candidate = <<>> /\ f_pc = "input" /\ toks = {} /\ ratio = [n |-> 0, d |-> 1]
    /\ NoFiles /\ AnalyzerOff /\ MergerOff

\* overlap_ratio() about to be called on two strings
InitOverlap ==
    /\ english \in OverlapInputs
    /\ candidate \in OverlapInputs
    /\ f_pc = "input" /\ toks = {} /\ ratio = [n |-> 0, d |-> 1]
    /\ NoFiles /\ AnalyzerOff /\ MergerOff

NextMerge == MergeFileNotFound \/ Merge
NextProgress ==
    \/ AnalyzerFileNotFound
    \/ AnalyzerLoad
    \/ AnalyzerEmptyReference
    \/ AnalyzerBasic
    \/ AnalyzerOverlapDisabled
    \/ AnalyzerEnglishNotFound
    \/ AnalyzerLoadEnglish
    \/ AnalyzerOverlap
    \/ AnalyzerPrintMissing
NextTokens == CallTokens
NextOverlap == CallFilteredEnglishTokens \/ CallOverlapRatio

SpecMerge == InitMerge /\ [][NextMerge]_vars
SpecProgress == InitProgress /\ [][NextProgress]_vars
SpecTokens == InitTokens /\ [][NextTokens]_vars
SpecOverlap == InitOverlap /\ [][NextOverlap]_vars

-----------------------------------------------------------------------------
(* Properties of the merger, under SpecMerge *)

\* the dict a later reader of the output file gets
OutputDict == load_json(glb_file)

\* C1: after a run of the merger the key sequence of merged, and of the file it
\* wrote, is the key sequence of the reference: same length, same order, and so
\* no key that is only in the localized file.
MergerOrderInvariant ==
    m_pc = "done" =>
        /\ KeySeq(merged) = KeySeq(m_en)
        /\ KeySeq(OutputDict) = KeySeq(m_en)
        /\ \A k \in Keys(m_glb) \ Keys(m_en) : k \notin Keys(OutputDict)

\* a run on a reference whose keys are not in sorted order, and not in the
\* order of the localized file
MergerOrderWitness ==
    /\ m_pc = "done"
    /\ Len(m_en) >= 2
    /\ KeySeq(m_en) # Sorted(Keys(m_en))
    /\ KeySeq(m_glb) = Sorted(Keys(m_en))

\* the localized value of k is a string that is not empty after trimming
LocalizedFilled(k) ==
    /\ \E i \in DOMAIN m_glb : m_glb[i].k = k
    /\ Get(m_glb, k).t = "str"
    /\ \E i \in DOMAIN Get(m_glb, k).s : Get(m_glb, k).s[i] \notin {" ", "\n", "\t", "\r"}

\* C2: every key of the reference gets the localized value when that is filled
\* and the fallback otherwise; the fallback of a run is one of the two modes,
\* the empty string or the reference value, the same for every key of the run.
MergerCompleteness ==
    m_pc = "done" =>
        /\ Keys(merged) = Keys(m_en)
        /\ \/ \A k \in Keys(m_en) :
                Get(merged, k) = IF LocalizedFilled(k) THEN Get(m_glb, k)
                                 ELSE [t |-> "str", s |-> <<>>]
           \/ \A k \in Keys(m_en) :
                Get(merged, k) = IF LocalizedFilled(k) THEN Get(m_glb, k)
                                 ELSE Get(m_en, k)

\* a run that kept one value and replaced a whitespace-only one
MergerCompletenessWitness ==
    /\ m_pc = "done"
    /\ \E k \in Keys(m_en) : LocalizedFilled(k)
    /\ \E k \in Keys(m_en) : Get(m_glb, k) = [t |-> "str", s |-> <<" ">>]
                             /\ Get(m_en, k) # [t |-> "str", s |-> <<>>]

\* C3: a run on the output of an earlier run writes that output again: every
\* text written by a sequence of runs is the text the first run wrote.
MergerIdempotence ==
    \A i \in DOMAIN written : written[i] = written[1]

\* two runs in a row, on a localized file with a value to keep (with characters
\* that json.dumps escapes) and a key to fill
MergerIdempotenceWitness ==
    /\ Len(written) >= 2
    /\ kept > 0 /\ missing > 0
    /\ \E i \in DOMAIN merged : BACKSLASH \in Range(merged[i].v.s)

ReferenceHasNoKeys == ref_file.exists /\ Keys(load_json(ref_file)) = {}
FatalCondition ==
    \/ ~ref_file.exists
    \/ ~glb_file.exists
    \/ ReferenceHasNoKeys
\* C6: a missing input file or a reference without keys ends the run in the
\* fatal state, never in normal termination, and the merger then writes nothing;
\* in the merger as well as in the analyzer.
FatalConditionsAbort ==
    /\ (runs > 0 /\ FatalCondition) => (m_pc = "fatal" /\ written = <<>>)
    /\ (a_pc = "done") =>
          /\ ~FatalCondition
          /\ english_path # "None" => EnglishFile.exists

\* the analyzer's part of C6 holds of progress.py
AnalyzerFatalConditionsAbort ==
    /\ (a_pc \in {"basic", "english", "overlap", "done"}) => ~FatalCondition
    /\ (a_pc \in {"english", "overlap", "done"} /\ english_path # "None")
          => EnglishFile.exists

-----------------------------------------------------------------------------
(* Properties of the analyzer, under SpecProgress *)

Reported == a_pc \in {"basic", "english", "overlap", "done"}
Classified == a_pc \in {"overlap", "done"} /\ english_path # "None"

\* the localized map has a string for k that is not empty after trimming
HasFilledString(k) ==
    /\ \E i \in DOMAIN glb : glb[i].k = k
    /\ Get(glb, k).t = "str"
    /\ \E i \in DOMAIN Get(glb, k).s : Get(glb, k).s[i] \notin {" ", "\n", "\t", "\r"}

\* C5: the filled keys are the reference keys with a string that is not empty
\* after trimming, every other reference key is missing/empty, the two counts
\* add up to the total, and no value makes the run fail.
BasicCounts ==
    /\ Reported =>
          /\ total = Cardinality(Keys(ref))
          /\ filled = Cardinality({k \in Keys(ref) : HasFilledString(k)})
          /\ Range(missing_or_empty) = {k \in Keys(ref) : ~HasFilledString(k)}
          /\ filled + Len(missing_or_empty) = total
    /\ a_pc = "fatal" =>
          \/ FatalCondition
          \/ english_path # "None" /\ ~EnglishFile.exists

\* a report with one filled key and a whitespace-only value counted as missing
BasicCountsWitness ==
    /\ Reported
    /\ filled = 1
    /\ \E k \in Keys(ref) : Get(glb, k) = [t |-> "str", s |-> <<" ">>]
                            /\ k \in Range(missing_or_empty)

\* C4 as stated: after the overlap analysis every filled reference key has
\* been counted in exactly one bucket.
ClassificationPartition ==
    Classified =>
        \A k \in Keys(ref) : HasFilledString(k) => Len(counted[k]) = 1

Buckets == { <<"identical_english">>, <<"identical_but_allowed", "fully_translated">>,
             <<"mostly_english">>, <<"partially_translated">>, <<"fully_translated">> }

\* C4 as amended: a filled key whose English value is a string falls into
\* exactly one of the five classes; the identical-but-allowed class increments
\* two counters (its own and fully_translated), every other class its own;
\* every other key increments nothing.  The counters are the class sizes.
ClassificationPartitionAmended ==
    Classified =>
        /\ \A k \in Keys(ref) :
              IF HasFilledString(k) /\ Get(en, k).t = "str"
              THEN counted[k] \in Buckets
              ELSE counted[k] = <<>>
        /\ identical_english = Cardinality({k \in Keys(ref) : counted[k] = <<"identical_english">>})
        /\ identical_but_allowed =
              Cardinality({k \in Keys(ref) : counted[k] = <<"identical_but_allowed", "fully_translated">>})
        /\ mostly_english = Cardinality({k \in Keys(ref) : counted[k] = <<"mostly_english">>})
        /\ partially_translated =
              Cardinality({k \in Keys(ref) : counted[k] = <<"partially_translated">>})
        /\ fully_translated =
              Cardinality({k \in Keys(ref) : counted[k] = <<"fully_translated">>})
              + identical_but_allowed

\* an analysis with an identical-but-allowed key and a filled key without an
\* English string
ClassificationPartitionWitness ==
    /\ Classified
    /\ \E k \in Keys(ref) : counted[k] = <<"identical_but_allowed", "fully_translated">>
    /\ \E k \in Keys(ref) : HasFilledString(k) /\ Get(en, k).t # "str"

\* C7: the class of a filled key with an English string: identical to English
\* when equal and the filtered English tokens are not empty, identical but
\* allowed (and fully translated) when equal and they are empty; when
\* different, by the overlap ratio r: mostly English when r >= 0.85, fully
\* translated when r <= 0.05, partially translated otherwise.
PerKeyClassifier ==
    Classified =>
        \A k \in Keys(ref) :
            LET gv == Get(glb, k)
                ev == Get(en, k)
                r  == overlap_ratio(ev.s, gv.s)
            IN  (HasFilledString(k) /\ ev.t = "str") =>
                  counted[k] =
                    IF gv.s = ev.s
                    THEN IF filtered_english_tokens(ev.s) # {}
                         THEN <<"identical_english">>
                         ELSE <<"identical_but_allowed", "fully_translated">>
                    ELSE IF 100 * r.n >= 85 * r.d THEN <<"mostly_english">>
                    ELSE IF 100 * r.n <= 5 * r.d THEN <<"fully_translated">>
                    ELSE <<"partially_translated">>

\* an analysis with an identical-but-allowed key and a partially translated one
PerKeyClassifierWitness ==
    /\ Classified
    /\ \E k \in Keys(ref) : counted[k] = <<"identical_but_allowed", "fully_translated">>
    /\ \E k \in Keys(ref) : counted[k] = <<"partially_translated">>

-----------------------------------------------------------------------------
(* Properties of overlap_ratio, under SpecOverlap *)

\* C8: overlap_ratio(s, s) = 1.0 whenever filtered_english_tokens(s) is not empty.
OverlapSelfIdentity ==
    (f_pc = "ratio" /\ candidate = english /\ toks # {}) =>
        (ratio.d > 0 /\ ratio.n = ratio.d)

\* a string compared with itself that has an allow-listed token and another one
OverlapSelfIdentityWitness ==
    /\ f_pc = "ratio" /\ candidate = english
    /\ toks # {}
    /\ toks # tokens(english)

-----------------------------------------------------------------------------
(* Properties of tokens, under SpecTokens *)

RECURSIVE RemovePlaceholders(_, _)
\* s without its printf-style placeholders, from position i on
RemovePlaceholders(s, i) ==
    IF i > Len(s) THEN <<>>
    ELSE IF PLACEHOLDER_RE(s, i) > 0
         THEN RemovePlaceholders(s, i + PLACEHOLDER_RE(s, i))
         ELSE <<s[i]>> \o RemovePlaceholders(s, i + 1)

RECURSIVE RemoveFormattingCodes(_, _)
\* s without its formatting codes (the section sign and the character after
\* it), from position i on
RemoveFormattingCodes(s, i) ==
    IF i > Len(s) THEN <<>>
    ELSE IF s[i] = "U+00A7" /\ i < Len(s)
         THEN RemoveFormattingCodes(s, i + 2)
         ELSE <<s[i]>> \o RemoveFormattingCodes(s, i + 1)

\* the tokens the specification describes
SpecifiedTokens(s) ==
    FindAll(Lower(RemoveFormattingCodes(RemovePlaceholders(s, 1), 1)), 1, <<>>)

\* C10: tokens(s) is the set of maximal runs of ASCII letters and digits of s
\* with its placeholders and two-character formatting codes removed, lower-cased.
TokensAsSpecified ==
    f_pc = "tokens" => toks = SpecifiedTokens(english)

====
